---- MODULE Spec2Model ----
(***************************************************************************)
(* Model of the HTTP-triggered function guardarLectura                     *)
(* (ProyectoRFID/guardarLectura/__init__.py).                              *)
(*                                                                         *)
(* The host invokes main(req) once per HTTP request.  main dispatches on   *)
(* the lower-cased method: POST parses the body, assigns the document id   *)
(* and inserts the document with container.create_item; GET runs           *)
(* "SELECT TOP 1 * FROM c ORDER BY c.timestamp DESC" and returns the first *)
(* item; every other method is answered 405.  Two except clauses close the *)
(* function.                                                               *)
(*                                                                         *)
(* Strings are sequences of one-character strings, so that str.replace,    *)
(* str.lower, slicing and the ordering of strings are computed, not        *)
(* assumed.  A JSON value is a record [t, v]: t is "absent" (key not in    *)
(* the object), "num" (any value that is not a string) or "str".           *)
(***************************************************************************)
EXTENDS Integers, Sequences, FiniteSets, TLC

VARIABLES
    container,  \* documents held by the Cosmos DB container
    pc,         \* "idle" | "invoked" | "returned": position of the invocation
    req,        \* the func.HttpRequest handed to main
    resp,       \* the func.HttpResponse main returned
    data,       \* the parsed payload after the id assignment (lines 32-38)
    cfgRead,    \* os.environ was read during the invocation
    storeOps,   \* store operations issued during the invocation
    raised      \* the exception raised during the invocation, if any

vars == <<container, pc, req, resp, data, cfgRead, storeOps, raised>>

----------------------------------------------------------------------------
(* Bounds *)

MaxDocs == 2      \* documents the container may hold
NumUuids == 2     \* distinct values uuid.uuid4() may return
MaxStrLen == 2    \* length of the uid / timestamp strings of SpecDerive

----------------------------------------------------------------------------
(* Strings *)

Str(s) == [t |-> "str", v |-> s]
Absent == [t |-> "absent", v |-> <<>>]
NotAString == [t |-> "num", v |-> <<"7">>]

Present(x) == x.t # "absent"

\* str.replace(old, new) for a one-character old: every occurrence is replaced
RECURSIVE replace(_, _, _)
replace(s, old, new) ==
    IF s = <<>> THEN <<>>
    ELSE <<IF Head(s) = old THEN new ELSE Head(s)>> \o replace(Tail(s), old, new)

LowerOf == [c \in {"P", "O", "S", "T", "G", "E", "U"} |->
              CASE c = "P" -> "p" [] c = "O" -> "o" [] c = "S" -> "s"
                [] c = "T" -> "t" [] c = "G" -> "g" [] c = "E" -> "e"
                [] c = "U" -> "u"]

\* variant: the method is compared as sent
lower_identity(s) == s

\* str.lower()
lower(s) == [i \in 1..Len(s) |-> IF s[i] \in DOMAIN LowerOf THEN LowerOf[s[i]] ELSE s[i]]

\* s[:n]
Slice(s, n) == SubSeq(s, 1, IF Len(s) < n THEN Len(s) ELSE n)

\* code points of the characters the model uses
Ord == [c \in {" ", "#", "-", ".", "/", "0", "1", "7", "9", ":", "?", "\\", "_", "a", "v", "x"} |->
          CASE c = " " -> 32 [] c = "#" -> 35 [] c = "-" -> 45 [] c = "." -> 46
            [] c = "/" -> 47 [] c = "0" -> 48 [] c = "1" -> 49 [] c = "7" -> 55
            [] c = "9" -> 57 [] c = ":" -> 58 [] c = "?" -> 63 [] c = "\\" -> 92
            [] c = "_" -> 95 [] c = "a" -> 97 [] c = "v" -> 118 [] c = "x" -> 120]

HexDigits == <<"0", "1", "2", "3", "4", "5", "6", "7", "8", "9", "a", "b", "c", "d", "e", "f">>

\* str(uuid.uuid4()): 8-4-4-4-12 lower-case hex digits
UuidStr(i) == [k \in 1..36 |->
                 IF k \in {9, 14, 19, 24} THEN "-"
                 ELSE IF k = 15 THEN "4"
                 ELSE IF k = 20 THEN "8"
                 ELSE HexDigits[i]]

UUIDs == {UuidStr(i) : i \in 1..NumUuids}

----------------------------------------------------------------------------
(* Requests and responses *)

POST_ == <<"P", "O", "S", "T">>
post_ == <<"p", "o", "s", "t">>
GET_ == <<"G", "E", "T">>
Get_ == <<"G", "e", "t">>
PUT_ == <<"P", "U", "T">>

NoBody == [kind |-> "none", uid |-> Absent, timestamp |-> Absent, id |-> Absent, extra |-> Absent]
InvalidJson == [NoBody EXCEPT !.kind = "invalid"]
NonObject == [NoBody EXCEPT !.kind = "nonobject"]

Object(uid, ts, id, extra) ==
    [kind |-> "object", uid |-> uid, timestamp |-> ts, id |-> id, extra |-> extra]

NoReq == [method |-> <<>>, body |-> NoBody]

MsgInvalidJson == <<"Cuerpo", "invalido", "-", "envia", "un", "JSON", "valido">>
MsgSaved == <<"Lectura", "guardada", "correctamente.">>
MsgNoReadings == <<"No", "hay", "lecturas", "disponibles.">>
MsgUnsupported == <<"Metodo", "HTTP", "no", "soportado.", "Usa", "POST", "para", "guardar",
                    "o", "GET", "para", "obtener", "la", "ultima", "lectura.">>
MsgConfigError == <<"Error", "de", "configuracion", "de", "Cosmos", "DB.">>
MsgInternal == <<"Error", "interno", "del", "servidor.">>

\* func.HttpResponse(body, status_code=...): the mimetype defaults to text/plain
HttpResponse(text, status) ==
    [status |-> status, mimetype |-> "text/plain", text |-> text, json |-> {}]

\* func.HttpResponse(json.dumps(doc), mimetype="application/json", status_code=200)
JsonResponse(doc) ==
    [status |-> 200, mimetype |-> "application/json", text |-> <<>>, json |-> {doc}]

NoResp == [status |-> 0, mimetype |-> "", text |-> <<>>, json |-> {}]

----------------------------------------------------------------------------
(* Configuration and store *)

ConfigKeys == {"COSMOS_ENDPOINT", "COSMOS_KEY", "COSMOS_DATABASE", "COSMOS_CONTAINER"}

\* the process environment of an invocation: complete, or one setting missing
Environs == {ConfigKeys, ConfigKeys \ {"COSMOS_CONTAINER"}}

\* what the store does to an operation besides serving it
Faults == {"none", "CosmosResourceNotFoundError", "ServiceRequestError"}

Ids(c) == {d.id : d \in c}

\* the store requires an id (line 30): a non-empty string
ValidId(id) == id.t = "str" /\ id.v # <<>>

\* variant: a store that does not refuse an id it already holds
create_item_no_conflict(c, body, fault) ==
    IF fault # "none" THEN [raised |-> fault, container |-> c]
    ELSE IF ~ValidId(body.id) THEN [raised |-> "CosmosHttpResponseError", container |-> c]
    ELSE [raised |-> "none", container |-> c \cup {body}]

\* container.create_item(body): insert, never update; the id is the key
create_item(c, body, fault) ==
    IF fault # "none" THEN [raised |-> fault, container |-> c]
    ELSE IF ~ValidId(body.id) THEN [raised |-> "CosmosHttpResponseError", container |-> c]
    ELSE IF body.id \in Ids(c) THEN [raised |-> "CosmosResourceExistsError", container |-> c]
    ELSE [raised |-> "none", container |-> c \cup {body}]

\* variant: container.upsert_item(body) in place of create_item
StoreInsert_upsert(c, body, fault) ==
    IF fault # "none" THEN [raised |-> fault, container |-> c]
    ELSE IF ~ValidId(body.id) THEN [raised |-> "CosmosHttpResponseError", container |-> c]
    ELSE [raised |-> "none", container |-> {d \in c : d.id # body.id} \cup {body}]

\* the line-56 call of the handler
StoreInsert(c, body, fault) == create_item(c, body, fault)

\* ORDER BY across types: undefined < number < string
Rank(x) == CASE x.t = "absent" -> 0 [] x.t = "num" -> 1 [] x.t = "str" -> 2

RECURSIVE StrLeq(_, _)
StrLeq(a, b) ==
    IF a = <<>> THEN TRUE
    ELSE IF b = <<>> THEN FALSE
    ELSE IF Head(a) = Head(b) THEN StrLeq(Tail(a), Tail(b))
    ELSE Ord[Head(a)] < Ord[Head(b)]

ValueLeq(x, y) ==
    \/ Rank(x) < Rank(y)
    \/ Rank(x) = Rank(y) /\ StrLeq(x.v, y.v)

\* variant: ORDER BY c.timestamp ASC
First_asc(cands) == {d \in cands : \A e \in cands : ValueLeq(d.timestamp, e.timestamp)}

\* the first item in ORDER BY c.timestamp DESC
First(cands) == {d \in cands : \A e \in cands : ValueLeq(e.timestamp, d.timestamp)}

\* list(container.query_items("SELECT TOP 1 * FROM c ORDER BY c.timestamp DESC")):
\* the result lists the store may return.  Whether documents without the
\* sort key take part depends on the container's indexing policy; ties are
\* broken by the store.
query_items(c) ==
    LET results(cands) == IF cands = {} THEN {<<>>} ELSE {<<d>> : d \in First(cands)}
    IN  results({d \in c : Present(d.timestamp)}) \cup results(c)

----------------------------------------------------------------------------
(* The handler *)

NoData == NoBody

\* variant: "?" is left in the uid
clean_uid_keeps_question_mark(uid) == replace(replace(replace(uid, "/", "_"), "\\", "_"), "#", "_")

\* line 34
clean_uid(uid) == replace(replace(replace(replace(uid, "/", "_"), "\\", "_"), "#", "_"), "?", "_")

\* line 35
clean_timestamp(ts) == replace(replace(replace(ts, " ", "_"), ":", "-"), ".", "_")

\* variant: an id is generated whenever uid and timestamp are not both there
AssignId_always_new(body, u) ==
    IF body.kind # "object" THEN [raised |-> "TypeError", data |-> NoData]
    ELSE IF Present(body.uid) /\ Present(body.timestamp) THEN
        IF body.uid.t # "str" \/ body.timestamp.t # "str"
        THEN [raised |-> "AttributeError", data |-> NoData]
        ELSE [raised |-> "none",
              data |-> [body EXCEPT !.id = Str(clean_uid(body.uid.v) \o <<"-">>
                                               \o clean_timestamp(body.timestamp.v) \o <<"-">>
                                               \o Slice(u, 8))]]
    ELSE [raised |-> "none", data |-> [body EXCEPT !.id = Str(u)]]

\* variant: the cleaned uid is written back into the payload
AssignId_cleans_payload(body, u) ==
    IF body.kind # "object" THEN [raised |-> "TypeError", data |-> NoData]
    ELSE IF Present(body.uid) /\ Present(body.timestamp) THEN
        IF body.uid.t # "str" \/ body.timestamp.t # "str"
        THEN [raised |-> "AttributeError", data |-> NoData]
        ELSE [raised |-> "none",
              data |-> [body EXCEPT !.uid = Str(clean_uid(body.uid.v)),
                                    !.id = Str(clean_uid(body.uid.v) \o <<"-">>
                                               \o clean_timestamp(body.timestamp.v) \o <<"-">>
                                               \o Slice(u, 8))]]
    ELSE IF ~Present(body.id) THEN [raised |-> "none", data |-> [body EXCEPT !.id = Str(u)]]
    ELSE [raised |-> "none", data |-> body]

\* lines 32-38; the result is the exception raised and the payload
AssignId(body, u) ==
    IF body.kind # "object" THEN [raised |-> "TypeError", data |-> NoData]
    ELSE IF Present(body.uid) /\ Present(body.timestamp) THEN
        IF body.uid.t # "str" \/ body.timestamp.t # "str"
        THEN [raised |-> "AttributeError", data |-> NoData]
        ELSE [raised |-> "none",
              data |-> [body EXCEPT !.id = Str(clean_uid(body.uid.v) \o <<"-">>
                                               \o clean_timestamp(body.timestamp.v) \o <<"-">>
                                               \o Slice(u, 8))]]
    ELSE IF ~Present(body.id) THEN [raised |-> "none", data |-> [body EXCEPT !.id = Str(u)]]
    ELSE [raised |-> "none", data |-> body]

\* variant: only the generic except clause
except_handler_generic(exc) == HttpResponse(MsgInternal, 500)

\* variant: the first clause catches every error of the store
except_handler_any_cosmos(exc) ==
    IF exc \in {"CosmosResourceNotFoundError", "CosmosResourceExistsError",
                "CosmosHttpResponseError"}
    THEN HttpResponse(MsgConfigError, 500)
    ELSE HttpResponse(MsgInternal, 500)

\* lines 116-128: the two except clauses
except_handler(exc) ==
    IF exc = "CosmosResourceNotFoundError"
    THEN HttpResponse(MsgConfigError, 500)
    ELSE HttpResponse(MsgInternal, 500)

Outcome(r, c, d, cfg, ops, exc) ==
    [resp |-> r, container |-> c, data |-> d, cfgRead |-> cfg, storeOps |-> ops, raised |-> exc]

\* variant: no inner try, the ValueError reaches the outer except clause
on_value_error_unhandled(c) ==
    Outcome(except_handler("ValueError"), c, NoData, FALSE, <<>>, "ValueError")

\* lines 23-28: the ValueError of req.get_json() is answered at once
on_value_error(c) ==
    Outcome(HttpResponse(MsgInvalidJson, 400), c, NoData, FALSE, <<>>, "ValueError")

\* lines 108-114
method_not_supported(c) ==
    Outcome(HttpResponse(MsgUnsupported, 405), c, NoData, FALSE, <<>>, "none")

\* lines 17-62
handle_post(request, c, environ, fault, u) ==
    IF request.body.kind = "invalid"
    THEN on_value_error(c)
    ELSE LET a == AssignId(request.body, u) IN
         IF a.raised # "none"
         THEN Outcome(except_handler(a.raised), c, a.data, FALSE, <<>>, a.raised)
         ELSE IF ~(ConfigKeys \subseteq environ)
         THEN Outcome(except_handler("KeyError"), c, a.data, TRUE, <<>>, "KeyError")
         ELSE LET s == StoreInsert(c, a.data, fault) IN
              IF s.raised # "none"
              THEN Outcome(except_handler(s.raised), s.container, a.data, TRUE,
                           <<"create_item">>, s.raised)
              ELSE Outcome(HttpResponse(MsgSaved, 200), s.container, a.data, TRUE,
                           <<"create_item">>, "none")

\* lines 65-106
handle_get(request, c, environ, fault, items) ==
    IF ~(ConfigKeys \subseteq environ)
    THEN Outcome(except_handler("KeyError"), c, NoData, TRUE, <<>>, "KeyError")
    ELSE IF fault # "none"
    THEN Outcome(except_handler(fault), c, NoData, TRUE, <<"query_items">>, fault)
    ELSE IF items = <<>>
    THEN Outcome(HttpResponse(MsgNoReadings, 404), c, NoData, TRUE, <<"query_items">>, "none")
    ELSE Outcome(JsonResponse(items[1]), c, NoData, TRUE, <<"query_items">>, "none")

\* lines 14-16, 64, 108-114: the dispatch
handle(request, c, environ, fault, u, items) ==
    LET http_method == lower(request.method) IN
    IF http_method = post_ THEN handle_post(request, c, environ, fault, u)
    ELSE IF http_method = lower(GET_) THEN handle_get(request, c, environ, fault, items)
    ELSE method_not_supported(c)

----------------------------------------------------------------------------
(* Inputs *)

IsPost(r) == lower(r.method) = post_
IsGet(r) == lower(r.method) = lower(GET_)

UidValues == {Absent, NotAString, Str(<<"a", "/">>)}
TimestampValues == {Absent, Str(<<"9">>), Str(<<"1", "0">>)}
IdValues == {Absent, Str(<<>>), Str(<<"x">>)}

Bodies == {InvalidJson, NonObject}
          \cup {Object(u, t, i, Absent) : u \in UidValues, t \in TimestampValues, i \in IdValues}

Requests == {[method |-> POST_, body |-> b] : b \in Bodies}
            \cup {[method |-> post_, body |-> b] :
                     b \in {InvalidJson, Object(Absent, Absent, Absent, Absent)}}
            \cup {[method |-> m, body |-> NoBody] : m \in {GET_, Get_, PUT_}}

----------------------------------------------------------------------------
(* Actions *)

Init ==
    /\ container = {}
    /\ pc = "idle"
    /\ req = NoReq
    /\ resp = NoResp
    /\ data = NoData
    /\ cfgRead = FALSE
    /\ storeOps = <<>>
    /\ raised = "none"

\* the host receives an HTTP request and invokes main(req)
Receive ==
    /\ pc = "idle"
    /\ \E r \in Requests : req' = r
    /\ pc' = "invoked"
    /\ UNCHANGED <<container, resp, data, cfgRead, storeOps, raised>>

\* main(req), lines 9-128.  The inputs of an invocation besides the request:
\* the process environment, what the store does when it is called (it is
\* called only after the configuration was read), the value of uuid.uuid4()
\* (called only for a POST) and the result of the query (run only for a GET).
\* The container is kept within MaxDocs documents.
main ==
    /\ pc = "invoked"
    /\ \E environ \in Environs :
       \E fault \in (IF ConfigKeys \subseteq environ THEN Faults ELSE {"none"}),
          u \in (IF IsPost(req) THEN UUIDs ELSE {UuidStr(1)}),
          items \in (IF IsGet(req) THEN query_items(container) ELSE {<<>>}) :
          LET o == handle(req, container, environ, fault, u, items) IN
          /\ Cardinality(o.container) <= MaxDocs
          /\ resp' = o.resp
          /\ container' = o.container
          /\ data' = o.data
          /\ cfgRead' = o.cfgRead
          /\ storeOps' = o.storeOps
          /\ raised' = o.raised
    /\ pc' = "returned"
    /\ UNCHANGED req

\* the host sends the response; nothing of the invocation is kept
Return ==
    /\ pc = "returned"
    /\ pc' = "idle"
    /\ req' = NoReq
    /\ resp' = NoResp
    /\ data' = NoData
    /\ cfgRead' = FALSE
    /\ storeOps' = <<>>
    /\ raised' = "none"
    /\ UNCHANGED container

Next == Receive \/ main \/ Return

Spec == Init /\ [][Next]_vars

\* The id assignment on its own: one POST to an empty container, the uid and
\* the timestamp drawn from every string up to MaxStrLen over characters the
\* two rules replace or leave alone; the object carries either no other field
\* or both an id and one more field.
StringsUpTo(chars, n) == UNION {[1..k -> chars] : k \in 0..n}

UidChars == {":", "/", "\\", "#", "?"}
TimestampChars == {"/", " ", ":", "."}

DeriveBodies ==
    {InvalidJson, NonObject}
    \cup {Object(u, t, o[1], o[2]) :
            u \in {Absent, NotAString} \cup {Str(x) : x \in StringsUpTo(UidChars, MaxStrLen)},
            t \in {Absent, NotAString} \cup {Str(x) : x \in StringsUpTo(TimestampChars, MaxStrLen)},
            o \in {<<Absent, Absent>>, <<Str(<<"x">>), Str(<<"v">>)>>}}

InitDerive ==
    /\ container = {}
    /\ pc = "invoked"
    /\ req \in {[method |-> POST_, body |-> b] : b \in DeriveBodies}
    /\ resp = NoResp
    /\ data = NoData
    /\ cfgRead = FALSE
    /\ storeOps = <<>>
    /\ raised = "none"

NextDerive == main

SpecDerive == InitDerive /\ [][NextDerive]_vars

----------------------------------------------------------------------------
(* Vocabulary of the properties *)

Returned == pc = "returned"
MainStep == pc = "invoked" /\ pc' = "returned"

Range(f) == {f[i] : i \in DOMAIN f}

\* m equals word up to the case of its letters
EqualsIgnoringCase(m, upper, lowercase) ==
    /\ Len(m) = Len(upper)
    /\ \A i \in 1..Len(m) : m[i] \in {upper[i], lowercase[i]}

MethodIsPost(m) == EqualsIgnoringCase(m, <<"P", "O", "S", "T">>, <<"p", "o", "s", "t">>)
MethodIsGet(m) == EqualsIgnoringCase(m, <<"G", "E", "T">>, <<"g", "e", "t">>)

HasUidAndTimestamp(b) == b.kind = "object" /\ Present(b.uid) /\ Present(b.timestamp)

\* the two substitutions, character by character
SanitizedUid(s) == [i \in 1..Len(s) |-> IF s[i] \in {"/", "\\", "#", "?"} THEN "_" ELSE s[i]]
SanitizedTimestamp(s) ==
    [i \in 1..Len(s) |-> IF s[i] \in {" ", "."} THEN "_" ELSE IF s[i] = ":" THEN "-" ELSE s[i]]

IsHex8(h) == Len(h) = 8 /\ \A i \in 1..8 : h[i] \in Range(HexDigits)

\* id is sanitize_uid(uid) - sanitize_ts(ts) - 8 hex characters
IsDerivedId(id, uid, ts) ==
    LET prefix == SanitizedUid(uid) \o <<"-">> \o SanitizedTimestamp(ts) \o <<"-">>
        n == Len(prefix)
    IN  /\ id.t = "str"
        /\ Len(id.v) = n + 8
        /\ SubSeq(id.v, 1, n) = prefix
        /\ IsHex8(SubSeq(id.v, n + 1, n + 8))

\* a is before or equal to b in lexicographic order of code points
LexLeq(a, b) ==
    \/ Len(a) <= Len(b) /\ \A i \in 1..Len(a) : a[i] = b[i]
    \/ \E k \in 1..Len(a) :
          /\ k <= Len(b)
          /\ \A i \in 1..(k - 1) : a[i] = b[i]
          /\ Ord[a[k]] < Ord[b[k]]

----------------------------------------------------------------------------
(* C1: a POST of an object with uid and timestamp that stores a document    *)
(* stores it under sanitize_uid(uid) "-" sanitize_ts(timestamp) "-" 8 hex   *)
(* characters, whatever the other fields are and whether or not the object  *)
(* carried an id; with string uid and timestamp that id is always the one   *)
(* assigned.                                                                *)
C1_DerivedId ==
    (Returned /\ IsPost(req) /\ HasUidAndTimestamp(req.body)) =>
        /\ (req.body.uid.t = "str" /\ req.body.timestamp.t = "str") =>
              /\ data.kind = "object"
              /\ IsDerivedId(data.id, req.body.uid.v, req.body.timestamp.v)
        /\ resp.status = 200 =>
              /\ container = {data}
              /\ data.extra = req.body.extra
              /\ IsDerivedId(data.id, req.body.uid.v, req.body.timestamp.v)

C1_Witness ==
    /\ Returned /\ resp.status = 200
    /\ req.body.uid = Str(<<"?", "/">>)
    /\ req.body.timestamp = Str(<<":", ".">>)
    /\ req.body.id = Str(<<"x">>)
    /\ \E d \in container : Len(d.id.v) = 14

----------------------------------------------------------------------------
(* C2 as stated: every GET answers 404 in plain text when the container is  *)
(* empty and otherwise 200, application/json, with exactly one stored       *)
(* document whose timestamp is greatest among all stored documents.         *)
GreatestTimestamp(d, c) ==
    \A e \in c : \/ ~Present(e.timestamp)
                 \/ /\ Present(d.timestamp)
                    /\ LexLeq(e.timestamp.v, d.timestamp.v)

----------------------------------------------------------------------------
(* C3: a POST whose body is not valid JSON is answered 400 in plain text at *)
(* once: the configuration is not read, no store operation is issued and    *)
(* the container is unchanged.                                              *)
C3_InvalidJson ==
    [][(MainStep /\ IsPost(req) /\ req.body.kind = "invalid") =>
          /\ resp'.status = 400
          /\ resp'.mimetype = "text/plain"
          /\ resp'.text # <<>>
          /\ resp'.json = {}
          /\ ~cfgRead'
          /\ storeOps' = <<>>
          /\ container' = container]_vars

C3_Witness ==
    Returned /\ IsPost(req) /\ req.body.kind = "invalid" /\ resp.status = 400 /\ container # {}

----------------------------------------------------------------------------
(* C4: for a POSTed object that has an id and not both uid and timestamp,   *)
(* the id is passed through unchanged, and a stored document carries it.    *)
KeepsOwnId(b) == b.kind = "object" /\ Present(b.id) /\ ~HasUidAndTimestamp(b)

C4_IdPassThrough ==
    (Returned /\ IsPost(req) /\ KeepsOwnId(req.body)) =>
        /\ data = req.body
        /\ resp.status = 200 => (data \in container /\ data.id = req.body.id)

C4_Witness ==
    /\ Returned /\ IsPost(req) /\ resp.status = 200
    /\ req.body.id = Str(<<"x">>)
    /\ Present(req.body.uid)
    /\ \E d \in container : d.id = Str(<<"x">>) /\ d.uid = req.body.uid

----------------------------------------------------------------------------
----------------------------------------------------------------------------
(* C6: a POST whose resulting id is the id of a stored document is never an *)
(* update: the conflict the store raises reaches the generic except clause, *)
(* the answer is 500 with the generic message, the container is unchanged.  *)
C6_ConflictIsError ==
    [][(/\ MainStep /\ IsPost(req)
        /\ storeOps' = <<"create_item">>
        /\ data'.id \in Ids(container)
        /\ raised' \notin {"CosmosResourceNotFoundError", "ServiceRequestError"}) =>
          /\ raised' = "CosmosResourceExistsError"
          /\ resp' = HttpResponse(MsgInternal, 500)
          /\ container' = container]_vars

C6_Witness ==
    /\ Returned /\ IsPost(req)
    /\ raised = "CosmosResourceExistsError"
    /\ resp.status = 500
    /\ \E d \in container : d.id = data.id /\ d # data

----------------------------------------------------------------------------
(* C7 as stated: a POST with uid and timestamp never derives the id that an *)
(* earlier POST with the same uid and timestamp derived.                    *)
SameReading(d, b) == d.uid = b.uid /\ d.timestamp = b.timestamp

C7_Original ==
    (Returned /\ IsPost(req) /\ HasUidAndTimestamp(req.body) /\ data.kind = "object"
       /\ resp.status # 200) =>
        ~\E d \in container : SameReading(d, req.body) /\ d.id = data.id

(* C7 amended: a POST repeated with the same uid and timestamp is not an    *)
(* upsert: when it succeeds the container holds the earlier documents and   *)
(* one more, under a different id; its id equals an earlier one only when   *)
(* the random suffixes coincide, and then it stores nothing.                *)
Suffix(id) == SubSeq(id.v, Len(id.v) - 7, Len(id.v))

C7_NotIdempotent ==
    [][(MainStep /\ IsPost(req) /\ HasUidAndTimestamp(req.body) /\ data'.kind = "object") =>
          LET earlier == {d \in container : SameReading(d, req.body)} IN
          /\ \A d \in earlier : (d.id = data'.id) <=> (Suffix(d.id) = Suffix(data'.id))
          /\ (\E d \in earlier : d.id = data'.id) => container' = container
          /\ resp'.status = 200 =>
                /\ \A d \in earlier : d.id # data'.id /\ d \in container'
                /\ data' \notin container
                /\ container' = container \cup {data'}]_vars

C7_Witness ==
    /\ Returned /\ IsPost(req) /\ resp.status = 200 /\ HasUidAndTimestamp(req.body)
    /\ \E d \in container : d # data /\ SameReading(d, req.body) /\ d.id # data.id
    /\ data \in container

----------------------------------------------------------------------------
(* C8: every invocation returns a response; a resource-not-found failure of *)
(* the store is answered 500 with the configuration message, every other    *)
(* failure 500 with the generic message, and no operation is retried.       *)
OtherFailures ==
    {"KeyError", "TypeError", "AttributeError", "ServiceRequestError",
     "CosmosHttpResponseError", "CosmosResourceExistsError"}

C8_ErrorMapping ==
    Returned =>
        /\ resp.status \in {200, 400, 404, 405, 500}
        /\ raised \in {"none", "ValueError", "CosmosResourceNotFoundError"} \cup OtherFailures
        /\ raised = "CosmosResourceNotFoundError" => resp = HttpResponse(MsgConfigError, 500)
        /\ raised \in OtherFailures => resp = HttpResponse(MsgInternal, 500)
        /\ raised = "none" => resp.status # 500
        /\ Len(storeOps) <= 1

C8_Witness ==
    /\ Returned /\ IsPost(req)
    /\ raised = "CosmosResourceNotFoundError"
    /\ resp.text = MsgConfigError
    /\ storeOps = <<"create_item">>

----------------------------------------------------------------------------
(* C9: the method is compared without regard to case: POST takes the store  *)
(* path, GET the query path, and every other method is answered 405 in      *)
(* plain text naming POST and GET, with no configuration read and no store  *)
(* operation.                                                               *)
C9_Dispatch ==
    Returned =>
        /\ MethodIsPost(req.method) =>
              /\ resp.status \in {200, 400, 500}
              /\ storeOps \in {<<>>, <<"create_item">>}
              /\ raised \notin {"ValueError", "TypeError", "AttributeError", "KeyError"}
                    => storeOps = <<"create_item">>
        /\ MethodIsGet(req.method) =>
              /\ resp.status \in {200, 404, 500}
              /\ cfgRead
              /\ raised # "KeyError" => storeOps = <<"query_items">>
        /\ ~MethodIsPost(req.method) /\ ~MethodIsGet(req.method) =>
              /\ resp.status = 405
              /\ resp.mimetype = "text/plain"
              /\ "POST" \in Range(resp.text) /\ "GET" \in Range(resp.text)
              /\ ~cfgRead
              /\ storeOps = <<>>

C9_Witness ==
    /\ Returned /\ req.method = <<"P", "O", "S", "T">>
    /\ resp.status = 200 /\ storeOps = <<"create_item">>

----------------------------------------------------------------------------
(* C10: the container changes only by a POST answered 200, which adds       *)
(* exactly one new document: the payload with its id set by the rule and    *)
(* every other field as sent; every other step leaves the container as it   *)
(* was, and no document is ever changed or removed.                         *)
IdByRule(d, b) ==
    IF HasUidAndTimestamp(b) THEN IsDerivedId(d.id, b.uid.v, b.timestamp.v)
    ELSE IF Present(b.id) THEN d.id = b.id
    ELSE d.id.t = "str" /\ d.id.v \in UUIDs

====
